---- MODULE Spec2Model ----
(***************************************************************************)
(* Model of the InkyPi Spectra6 server's image pipeline:                   *)
(*   blueprints/main.py       palette, quantize, 4bpp packing, the         *)
(*                            /api/current_image handler and its           *)
(*                            If-Modified-Since gate                       *)
(*   utils/app_utils.py       handle_request_files and                     *)
(*                            _resize_and_rotate_image                     *)
(*   plugins/image_upload     ImageUpload.generate_image / open_image      *)
(* Each part of the program has its own specification over the shared      *)
(* variables: SpecPack, SpecQuant, SpecFit, SpecServe, SpecUpload and      *)
(* SpecRotate.                                                             *)
(***************************************************************************)
EXTENDS Integers, Sequences, FiniteSets, TLC

VARIABLES
    canvas,     \* pack: the quantized index canvas, a sequence of rows
    packOut,    \* pack: result of convert_to_display_format's packing
    qImage,     \* quantize: the RGB image handed to quantize
    qOut,       \* quantize: result of resize_and_dither_image
    fitIn,      \* fit: arguments of _resize_and_rotate_image
    fitOut,     \* fit: its result
    zone,       \* serve: the server's local time zone
    now,        \* serve: wall clock, in ticks
    curFile,    \* serve: static/images/current_image.png
    cached,     \* serve: Last-Modified of the client's last fresh response
    changed,    \* serve: file written since the client's last fresh response
    lastReq,    \* serve: the last request with its response
    device,     \* upload: the device configuration
    savedFile,  \* upload: the file stored under static/images/saved
    upOut,      \* upload: outcome of the last handle_request_files call
    settings,   \* rotate: the plugin settings (image_index, imageFiles[], randomize)
    readable,   \* rotate: which stored image files Image.open can read
    calls       \* rotate: log of the generate_image calls on the current list

packVars   == <<canvas, packOut>>
quantVars  == <<qImage, qOut>>
fitVars    == <<fitIn, fitOut>>
serveVars  == <<zone, now, curFile, cached, changed, lastReq>>
uploadVars == <<device, savedFile, upOut>>
rotateVars == <<settings, readable, calls>>
\* What the server's and the upload's steps leave alone.
frame == <<packVars, quantVars, fitVars, rotateVars>>
vars == <<canvas, packOut, qImage, qOut, fitIn, fitOut, zone, now, curFile,
          cached, changed, lastReq, device, savedFile, upOut, settings,
          readable, calls>>

(***************************************************************************)
(* Bounds of the model.                                                    *)
(***************************************************************************)
MaxPixels == 5        \* pack: canvases of at most this many pixels
MaxQuantPixels == 4   \* quantize: images of at most this many pixels
MaxSrc == 3           \* fit/upload: source images up to MaxSrc x MaxSrc
MaxDim == 4           \* fit/upload: small display panels up to MaxDim x MaxDim
MaxTick == 5          \* serve: the clock runs from 0 to MaxTick
MaxImages == 3        \* rotate: at most this many uploaded images

(***************************************************************************)
(* Helpers.                                                                *)
(***************************************************************************)
None == [kind |-> "none"]

Max(a, b) == IF a >= b THEN a ELSE b
Abs(a) == IF a >= 0 THEN a ELSE 0 - a

\* C integer division: truncation toward zero.
TruncDiv(a, b) == IF a >= 0 THEN a \div b ELSE 0 - ((0 - a) \div b)

RECURSIVE BitOr(_, _)
BitOr(a, b) ==
    IF a = 0 THEN b
    ELSE IF b = 0 THEN a
    ELSE (IF a % 2 = 1 \/ b % 2 = 1 THEN 1 ELSE 0) + 2 * BitOr(a \div 2, b \div 2)

RECURSIVE Concat(_)
Concat(rows) == IF rows = <<>> THEN <<>> ELSE Head(rows) \o Concat(Tail(rows))

(***************************************************************************)
(* The palette (main.py 26-51).                                            *)
(***************************************************************************)
PaletteColors == 6
PaletteSize == 256

RGB(r, g, b) == <<r, g, b>>

\* palette_data: six colors, then zero padding up to 256 entries.
PaletteEntry(i) ==
    CASE i = 0 -> RGB(0, 0, 0)
      [] i = 1 -> RGB(255, 255, 255)
      [] i = 2 -> RGB(0, 128, 0)
      [] i = 3 -> RGB(0, 0, 255)
      [] i = 4 -> RGB(255, 0, 0)
      [] i = 5 -> RGB(255, 255, 0)
      [] OTHER -> RGB(0, 0, 0)

(***************************************************************************)
(* Bit packer: convert_to_display_format (main.py 68-77).                  *)
(***************************************************************************)
\* np.array(quantized).flatten(): row-major.
Flatten(rows) == Concat(rows)

\* flat[start::2], 0-based start.
Stride2(flat, start) ==
    [k \in 1 .. ((Len(flat) - start + 1) \div 2) |-> flat[2 * (k - 1) + start + 1]]

\* uint8 << 4 keeps the low 8 bits.
Shl4(p) == (p * 16) % 256

\* (flat[0::2] << 4) | flat[1::2] under numpy's broadcasting of 1-d arrays:
\* equal lengths pair up, a length-1 operand is stretched, anything else
\* raises ValueError.
PackBad(flat) ==
    LET hi == Stride2(flat, 0)
        lo == Stride2(flat, 1)
    IN  IF Len(hi) = Len(lo) \/ Len(lo) = 1
        THEN [ok |-> TRUE,
              bytes |-> [k \in 1 .. Len(hi) |->
                            BitOr(Shl4(lo[IF Len(lo) = 1 THEN 1 ELSE k]), hi[k])],
              error |-> ""]
        ELSE IF Len(hi) = 1
        THEN [ok |-> TRUE, bytes |-> <<>>, error |-> ""]
        ELSE [ok |-> FALSE, bytes |-> <<>>, error |-> "ValueError"]

Pack(flat) ==
    LET hi == Stride2(flat, 0)
        lo == Stride2(flat, 1)
    IN  IF Len(hi) = Len(lo) \/ Len(lo) = 1
        THEN [ok |-> TRUE,
              bytes |-> [k \in 1 .. Len(hi) |->
                            BitOr(Shl4(hi[k]), lo[IF Len(lo) = 1 THEN 1 ELSE k])],
              error |-> ""]
        ELSE IF Len(hi) = 1
        THEN [ok |-> TRUE, bytes |-> <<>>, error |-> ""]
        ELSE [ok |-> FALSE, bytes |-> <<>>, error |-> "ValueError"]

\* The panel's reading of the buffer: high nibble, then low nibble.
Unpack(bytes) ==
    [k \in 1 .. 2 * Len(bytes) |->
        IF k % 2 = 1 THEN bytes[(k + 1) \div 2] \div 16 ELSE bytes[k \div 2] % 16]

Dims(maxPixels) ==
    {wh \in (1 .. maxPixels) \X (1 .. maxPixels) : wh[1] * wh[2] <= maxPixels}

Width(rows) == Len(rows[1])
Height(rows) == Len(rows)

NoPack == [ok |-> FALSE, bytes |-> <<>>, error |-> "not run"]

InitPack ==
    /\ \E wh \in Dims(MaxPixels) :
           canvas \in [1 .. wh[2] -> [1 .. wh[1] -> 0 .. PaletteColors - 1]]
    /\ packOut = NoPack

PackCanvas ==
    /\ packOut = NoPack
    /\ packOut' = Pack(Flatten(canvas))
    /\ UNCHANGED <<canvas, quantVars, fitVars, serveVars, uploadVars, rotateVars>>

(***************************************************************************)
(* Quantizer: resize_and_dither_image (main.py 54-65), that is             *)
(* Image.quantize(colors=6, palette=PALETTE_IMAGE, dither=FLOYDSTEINBERG). *)
(* An image is [w, h, px] with px the row-major sequence of RGB pixels.    *)
(***************************************************************************)
Dist(c, d) ==
    (c[1] - d[1]) * (c[1] - d[1]) + (c[2] - d[2]) * (c[2] - d[2])
        + (c[3] - d[3]) * (c[3] - d[3])

\* The scan with <= for <: the last of the closest entries wins.
RECURSIVE NearestScanLast(_, _, _, _)
NearestScanLast(c, i, best, bestD) ==
    IF i >= PaletteColors
    THEN IF Dist(c, PaletteEntry(PaletteSize - 1)) <= bestD THEN PaletteSize - 1 ELSE best
    ELSE LET d == Dist(c, PaletteEntry(i))
         IN  IF d <= bestD THEN NearestScanLast(c, i + 1, i, d)
             ELSE NearestScanLast(c, i + 1, best, bestD)

\* The scan of the palette from entry i on, in index order: an entry replaces
\* the best so far only when strictly closer, so the lowest index wins a
\* tie.  The padding entries PaletteColors .. PaletteSize-1 all hold the
\* same color, so only the first of them can replace the best.
RECURSIVE NearestScan(_, _, _, _)
NearestScan(c, i, best, bestD) ==
    IF i >= PaletteColors
    THEN IF Dist(c, PaletteEntry(PaletteColors)) < bestD THEN PaletteColors ELSE best
    ELSE LET d == Dist(c, PaletteEntry(i))
         IN  IF d < bestD THEN NearestScan(c, i + 1, i, d)
             ELSE NearestScan(c, i + 1, best, bestD)

NearestLast(c) == NearestScanLast(c, 1, 0, Dist(c, PaletteEntry(0)))

Nearest(c) == NearestScan(c, 1, 0, Dist(c, PaletteEntry(0)))

Clip8(v) == IF v < 0 THEN 0 ELSE IF v > 255 THEN 255 ELSE v

AddErr(acc, p, k, e) ==
    [acc EXCEPT ![p] = <<@[1] + k * e[1], @[2] + k * e[2], @[3] + k * e[3]>>]

\* Floyd-Steinberg: the error of pixel (x, y) goes 7/16 right, 3/16 below
\* left, 5/16 below and 1/16 below right; acc holds the sixteenths.
Diffuse(acc, w, h, p, e) ==
    LET x == (p - 1) % w
        y == (p - 1) \div w
        a1 == IF x + 1 < w THEN AddErr(acc, p + 1, 7, e) ELSE acc
        a2 == IF y + 1 < h /\ x > 0 THEN AddErr(a1, p + w - 1, 3, e) ELSE a1
        a3 == IF y + 1 < h THEN AddErr(a2, p + w, 5, e) ELSE a2
    IN  IF y + 1 < h /\ x + 1 < w THEN AddErr(a3, p + w + 1, 1, e) ELSE a3

RECURSIVE Dither(_, _, _, _, _)
Dither(img, p, acc, idx, err) ==
    IF p > Len(img.px) THEN [ok |-> TRUE, w |-> img.w, h |-> img.h, idx |-> idx, err |-> err]
    ELSE LET val == [ch \in 1 .. 3 |->
                        Clip8(img.px[p][ch] + TruncDiv(acc[p][ch], 16))]
             i == Nearest(val)
             e == [ch \in 1 .. 3 |-> val[ch] - PaletteEntry(i)[ch]]
         IN  Dither(img, p + 1, Diffuse(acc, img.w, img.h, p, e),
                    Append(idx, i), Append(err, e))

resize_and_dither_image(img) ==
    Dither(img, 1, [p \in 1 .. Len(img.px) |-> <<0, 0, 0>>], <<>>, <<>>)

\* quantized.convert('RGB') of preview_image: the palette lookup.
ToRGB(idx) == [p \in 1 .. Len(idx) |-> PaletteEntry(idx[p])]

PaletteSet == {PaletteEntry(i) : i \in 0 .. PaletteColors - 1}
\* Colors of the test images: the palette and two colors outside it.
TestColors == PaletteSet \cup {RGB(128, 128, 128), RGB(255, 128, 0)}

NoQuant == [ok |-> FALSE, w |-> 0, h |-> 0, idx |-> <<>>, err |-> <<>>]

InitQuant ==
    /\ \E wh \in Dims(MaxQuantPixels) :
         \E px \in [1 .. wh[1] * wh[2] -> TestColors] :
           qImage = [w |-> wh[1], h |-> wh[2], px |-> px]
    /\ qOut = NoQuant

QuantizeImage ==
    /\ qOut = NoQuant
    /\ qOut' = resize_and_dither_image(qImage)
    /\ UNCHANGED <<qImage, packVars, fitVars, serveVars, uploadVars, rotateVars>>

(***************************************************************************)
(* Geometry fitter: _resize_and_rotate_image (app_utils.py 200-234).       *)
(* An image is known by its size <<width, height>>.                        *)
(***************************************************************************)
PanelWidth == 800
PanelHeight == 480

\* ImageOps.fit(image, size, LANCZOS): crop and scale to exactly size.
ImageOpsFit(size, target) == target

\* utils.image_utils.pad_image_blur(image, size): the image scaled into the
\* box over a blurred copy that fills it.
pad_image_blur(size, target) == target

\* rotate(90) without expand keeps the canvas.
RotateKeep(size) == size

\* image.rotate(90, expand=True): a transpose, width and height swap.
Rotate90(size) == <<size[2], size[1]>>

\* Pairs <<n, b>> for which the double product n * (1 - b/100) falls just
\* short of its exact integral value, so that int() yields one less
\* (IEEE-754 doubles; n up to 12, and the panel's 480 and 800).
FloatShort ==
    {<<5, 80>>, <<10, 80>>, <<10, 90>>,
     <<480, 55>>, <<480, 80>>, <<480, 90>>,
     <<800, 34>>, <<800, 55>>, <<800, 56>>, <<800, 67>>, <<800, 68>>,
     <<800, 78>>, <<800, 79>>, <<800, 80>>, <<800, 81>>, <<800, 89>>,
     <<800, 90>>, <<800, 91>>, <<800, 92>>, <<800, 93>>}

\* int(n * (1 - (b / 100))) computed in doubles.
IntShrink(n, b) ==
    IF <<n, b>> \in FloatShort THEN (n * (100 - b)) \div 100 - 1
    ELSE TruncDiv(n * (100 - b), 100)

\* (canvas - new) taken whole: the content lands in the far corner.
PasteOffsetFar(canvasLen, newLen) == canvasLen - newLen

\* (canvas_size[i] - new) // 2
PasteOffset(canvasLen, newLen) == (canvasLen - newLen) \div 2

FitResult(ok, size, bordered, content, paste, error) ==
    [ok |-> ok, size |-> size, bordered |-> bordered, content |-> content,
     paste |-> paste, error |-> error]

\* The border step (219-232); image.resize raises ValueError unless both
\* sides of the new size are at least 1.
ApplyBorder(canvas_size, border_percent) ==
    LET new_width == IntShrink(canvas_size[1], border_percent)
        new_height == IntShrink(canvas_size[2], border_percent)
    IN  IF new_width < 1 \/ new_height < 1
        THEN FitResult(FALSE, <<0, 0>>, FALSE, <<0, 0>>, <<0, 0>>, "ValueError")
        ELSE FitResult(TRUE, canvas_size, TRUE, <<new_width, new_height>>,
                       <<PasteOffset(canvas_size[1], new_width),
                         PasteOffset(canvas_size[2], new_height)>>, "")

resize_and_rotate_image(image, orientation, display_size, border_percent) ==
    LET target_size == <<display_size[2], display_size[1]>>
        fitted ==
            IF orientation = "vertical"
            THEN IF image[1] > image[2]
                 THEN Rotate90(pad_image_blur(image, target_size))
                 ELSE Rotate90(ImageOpsFit(image, target_size))
            ELSE ImageOpsFit(image, display_size)
    IN  IF border_percent > 0
        THEN ApplyBorder(fitted, border_percent)
        ELSE FitResult(TRUE, fitted, FALSE, fitted, <<0, 0>>, "")

SourceSizes == (1 .. MaxSrc) \X (1 .. MaxSrc)
Orientations == {"vertical", "horizontal"}
SmallPanels == (1 .. MaxDim) \X (1 .. MaxDim)
PanelSizes == SmallPanels \cup {<<PanelWidth, PanelHeight>>}
BorderPercents == 0 .. 100

NoFit == FitResult(FALSE, <<0, 0>>, FALSE, <<0, 0>>, <<0, 0>>, "not run")

InitFit ==
    /\ fitIn \in [image : SourceSizes, orientation : Orientations,
                  display : PanelSizes, border : BorderPercents]
    /\ fitOut = NoFit

FitImage ==
    /\ fitOut = NoFit
    /\ fitOut' = resize_and_rotate_image(fitIn.image, fitIn.orientation,
                                         fitIn.display, fitIn.border)
    /\ UNCHANGED <<fitIn, packVars, quantVars, serveVars, uploadVars, rotateVars>>

(***************************************************************************)
(* /api/current_image: get_current_image (main.py 108-148).                *)
(* The clock counts ticks, TicksPerSecond to the second; os.path.getmtime  *)
(* is a tick count and int() truncates it to seconds.  A time zone is      *)
(* [switch, before, after]: the UTC offset is `before` up to the second    *)
(* `switch` and `after` from it on.  An HTTP date header is                *)
(* [kind |-> "date", form, t]: the form it is written in and the GMT       *)
(* second it asserts.                                                      *)
(***************************************************************************)
TicksPerSecond == 2
MaxFoldSeconds == 2

MaxSecond == MaxTick \div TicksPerSecond

UTC == [switch |-> 0, before |-> 0, after |-> 0]
Zones ==
    {UTC,
     [switch |-> 0, before |-> 1, after |-> 1],       \* east of Greenwich
     [switch |-> 0, before |-> 0 - 1, after |-> 0 - 1], \* west of Greenwich
     [switch |-> 1, before |-> 1, after |-> 0],       \* clocks go back at 1
     [switch |-> 1, before |-> 0, after |-> 1]}       \* clocks go forward at 1

UtcOffset(z, u) == IF u < z.switch THEN z.before ELSE z.after

\* The naive local time of the UTC second u (datetime.fromtimestamp).
LocalTime(z, u) == u + UtcOffset(z, u)

\* strftime('%a, %d %b %Y %H:%M:%S GMT') of a naive datetime: its fields,
\* with the literal zone name GMT after them.
HttpDate(naive) == [kind |-> "date", form |-> "imf-fixdate", t |-> naive]

\* datetime.strptime(header, '%a, %d %b %Y %H:%M:%S %Z'): a naive datetime
\* holding the header's fields, or ValueError for any other form.
Strptime(header) ==
    IF header.kind = "date" /\ header.form = "imf-fixdate"
    THEN [ok |-> TRUE, naive |-> header.t]
    ELSE [ok |-> FALSE, naive |-> 0]

\* naive.timestamp(): the naive datetime read as local time (fold = 0).
Timestamp(z, t) ==
    LET a == LocalTime(z, t) - t
        u1 == t - a
        t1 == LocalTime(z, u1)
        probe == u1 - MaxFoldSeconds
        b == IF t1 = t THEN LocalTime(z, probe) - probe ELSE t1 - u1
        u2 == t - b
        t2 == LocalTime(z, u2)
    IN  IF t1 = t /\ a = b THEN u1
        ELSE IF t2 = t THEN u2
        ELSE IF t1 = t THEN u1
        ELSE Max(u1, u2)

NoFile == [exists |-> FALSE, mtime |-> 0, size |-> <<0, 0>>, decodable |-> FALSE,
           withConfig |-> FALSE]

ImageFile(mtime, size, decodable, withConfig) ==
    [exists |-> TRUE, mtime |-> mtime, size |-> size, decodable |-> decodable,
     withConfig |-> withConfig]

\* convert_to_display_format on a stored file (main.py 68-77): Image.open
\* raises on an undecodable file; the quantized canvas has the file's size,
\* and only the packed length is kept of the body.
convert_to_display_format(file) ==
    IF ~file.decodable
    THEN [ok |-> FALSE, length |-> 0, error |-> "UnidentifiedImageError"]
    ELSE LET quantized == [y \in 1 .. file.size[2] |-> [x \in 1 .. file.size[1] |-> 1]]
             packed == Pack(Flatten(quantized))
         IN  [ok |-> packed.ok, length |-> Len(packed.bytes), error |-> packed.error]

Response(status, lastModified, length, error) ==
    [status |-> status, lastModified |-> lastModified, length |-> length,
     error |-> error]

\* The freshness gate (main.py 116-130): TRUE when the handler answers 304.
NotModified(z, file_mtime, if_modified_since) ==
    /\ if_modified_since # None
    /\ Strptime(if_modified_since).ok
    /\ file_mtime <= Timestamp(z, Strptime(if_modified_since).naive)

get_current_image(z, file, if_modified_since, output_format) ==
    IF ~file.exists THEN Response(404, None, 0, "Image not found")
    ELSE LET file_mtime == file.mtime \div TicksPerSecond
             last_modified == LocalTime(z, file_mtime)
         IN  IF NotModified(z, file_mtime, if_modified_since)
             THEN Response(304, None, 0, "")
             ELSE IF output_format \in {"raw", "spectra6"}
             THEN LET packed_data == convert_to_display_format(file)
                  IN  IF packed_data.ok
                      THEN Response(200, HttpDate(last_modified), packed_data.length, "")
                      ELSE Response(500, None, 0, packed_data.error)
             ELSE Response(200, HttpDate(last_modified), 0, "")

\* "raw" takes the same branch as "spectra6".
Formats == {"spectra6", "png"}
HeaderForms == {"imf-fixdate", "rfc850"}
Headers ==
    {None, [kind |-> "junk"]}
        \cup {[kind |-> "date", form |-> f, t |-> t] :
                f \in HeaderForms, t \in (0 - 1) .. (MaxSecond + 1)}

NoRequest ==
    [kind |-> "none", ims |-> None, format |-> "", file |-> NoFile,
     fileSec |-> 0 - 1, changedBefore |-> FALSE, resp |-> Response(0, None, 0, "")]

Request(kind, ims, fmt, file, wasChanged, resp) ==
    [kind |-> kind, ims |-> ims, format |-> fmt, file |-> file,
     fileSec |-> IF file.exists THEN file.mtime \div TicksPerSecond ELSE 0 - 1,
     changedBefore |-> wasChanged, resp |-> resp]

InitServe ==
    /\ zone \in Zones
    /\ now = 0
    /\ curFile = NoFile
    /\ cached = None
    /\ changed = FALSE
    /\ lastReq = NoRequest

Tick ==
    /\ now < MaxTick
    /\ now' = now + 1
    /\ UNCHANGED <<zone, curFile, cached, changed, lastReq, uploadVars, frame>>

\* The display pipeline rewrites current_image.png: its mtime is the clock.
WriteCurrentImage ==
    /\ curFile' = ImageFile(now, <<2, 2>>, TRUE, TRUE)
    /\ changed' = TRUE
    /\ UNCHANGED <<zone, now, cached, lastReq, uploadVars, frame>>

\* A request with an arbitrary If-Modified-Since header.
ProbeRequest ==
    \E ims \in Headers, fmt \in Formats :
        /\ lastReq' = Request("probe", ims, fmt, curFile, changed,
                              get_current_image(zone, curFile, ims, fmt))
        /\ UNCHANGED <<zone, now, curFile, cached, changed, uploadVars, frame>>

\* The panel's client: it sends the Last-Modified of its last fresh response.
ClientRequest ==
    \E fmt \in Formats :
        LET resp == get_current_image(zone, curFile, cached, fmt)
        IN  /\ lastReq' = Request("client", cached, fmt, curFile, changed, resp)
            /\ cached' = IF resp.status = 200 THEN resp.lastModified ELSE cached
            /\ changed' = IF resp.status = 200 THEN FALSE ELSE changed
            /\ UNCHANGED <<zone, now, curFile, uploadVars, frame>>

(***************************************************************************)
(* Upload: handle_request_files (app_utils.py 146-197), one uploaded file  *)
(* per call.  An upload is [ext, decodable, size, exifSwap]; the form's    *)
(* borderPercent is [kind, v] with kind "absent", "int" or "text".  The     *)
(* locations the form already lists (150-154) are passed through as they   *)
(* are and are not tracked here.                                           *)
(***************************************************************************)
allowed_file_extensions == {"pdf", "png", "jpg", "jpeg", "gif", "webp", "heif", "heic"}
image_extensions == {"png", "jpg", "jpeg", "gif", "webp", "heif", "heic"}

\* ImageOps.exif_transpose: EXIF orientations 5..8 swap width and height.
exif_transpose(size, exifSwap) == IF exifSwap THEN <<size[2], size[1]>> ELSE size

UploadOutcome(called, reported, stageFailed, surfaced, error) ==
    [called |-> called, reported |-> reported, stageFailed |-> stageFailed,
     surfaced |-> surfaced, error |-> error]

\* The body of the try block (173-183): open, transpose, fit.
ProcessImage(upload, border, withConfig, dev) ==
    IF ~upload.decodable
    THEN FitResult(FALSE, <<0, 0>>, FALSE, <<0, 0>>, <<0, 0>>, "UnidentifiedImageError")
    ELSE LET img == exif_transpose(upload.size, upload.exifSwap)
         IN  IF ~withConfig
             THEN FitResult(TRUE, img, FALSE, img, <<0, 0>>, "")
             ELSE IF border.kind = "text"
             THEN FitResult(FALSE, <<0, 0>>, FALSE, <<0, 0>>, <<0, 0>>, "ValueError")
             ELSE resize_and_rotate_image(img, dev.orientation, dev.display,
                                          IF border.kind = "absent" THEN 0 ELSE border.v)

\* The result of one call: the file left at the saved path and what the
\* caller is told.  A failed stage is logged as a warning and the raw upload
\* is saved in its place.
handle_request_files(upload, border, withConfig, dev, old, mtime) ==
    IF upload.ext = "" \/ upload.ext \notin allowed_file_extensions
    THEN [saved |-> old, out |-> UploadOutcome(TRUE, FALSE, FALSE, FALSE, "")]
    ELSE IF upload.ext \in image_extensions
    THEN LET img == ProcessImage(upload, border, withConfig, dev)
         IN  IF img.ok
             THEN [saved |-> ImageFile(mtime, img.size, TRUE, withConfig),
                   out |-> UploadOutcome(TRUE, TRUE, FALSE, FALSE, "")]
             ELSE [saved |-> ImageFile(mtime, upload.size, upload.decodable, withConfig),
                   out |-> UploadOutcome(TRUE, TRUE, TRUE, FALSE, img.error)]
    ELSE [saved |-> ImageFile(mtime, <<0, 0>>, FALSE, withConfig),
          out |-> UploadOutcome(TRUE, TRUE, FALSE, FALSE, "")]

\* The uploads tried: landscape, portrait and square sources.
UploadSizes == {<<2, 1>>, <<1, 2>>, <<3, 3>>}
Uploads ==
    [ext : {"", "png", "pdf", "exe"}, decodable : BOOLEAN, size : UploadSizes,
     exifSwap : BOOLEAN]
BorderForms ==
    {[kind |-> "absent", v |-> 0], [kind |-> "text", v |-> 0]}
        \cup {[kind |-> "int", v |-> v] : v \in {50, 100}}
\* The panels tried: an even number of pixels each.
UploadPanels == {<<4, 2>>, <<2, 2>>}

NoUpload == UploadOutcome(FALSE, FALSE, FALSE, FALSE, "")

InitUpload ==
    /\ device \in [orientation : Orientations, display : UploadPanels]
    /\ savedFile = NoFile
    /\ upOut = NoUpload

UploadFile ==
    \E upload \in Uploads, border \in BorderForms, withConfig \in BOOLEAN :
        LET r == handle_request_files(upload, border, withConfig, device, savedFile, now)
        IN  /\ savedFile' = r.saved
            /\ upOut' = r.out
            /\ UNCHANGED <<device, serveVars, frame>>

\* The refresh: the plugin opens the stored image (open_image raises on an
\* unreadable file) and the display pipeline writes it to current_image.png.
PublishCurrentImage ==
    /\ savedFile.exists
    /\ savedFile.decodable
    /\ curFile' = [savedFile EXCEPT !.mtime = now]
    /\ changed' = TRUE
    /\ UNCHANGED <<zone, now, cached, lastReq, uploadVars, frame>>

\* The panel fetches the image without a condition.
PanelFetch ==
    \E fmt \in Formats :
        /\ lastReq' = Request("fetch", None, fmt, curFile, changed,
                              get_current_image(zone, curFile, None, fmt))
        /\ UNCHANGED <<zone, now, curFile, cached, changed, uploadVars, frame>>

(***************************************************************************)
(* Image rotation: ImageUpload.generate_image and open_image               *)
(* (image_upload.py 11-43).  settings is [image_index, files, randomize];  *)
(* files is settings['imageFiles[]'], its k-th path written k, and         *)
(* readable[k] tells whether Image.open can read that path.  Python's      *)
(* index i is position i + 1 here.                                         *)
(***************************************************************************)
\* open_image: RuntimeError on an empty list or an unreadable file.
open_image(img_index, image_locations, canRead) ==
    IF image_locations = <<>> THEN [ok |-> FALSE, error |-> "No images provided."]
    ELSE IF ~canRead[image_locations[img_index + 1]]
    THEN [ok |-> FALSE, error |-> "Failed to read image file."]
    ELSE [ok |-> TRUE, error |-> ""]

CallResult(ok, used, written, error) ==
    [ok |-> ok, used |-> used, written |-> written, error |-> error]

\* The index written back without the wrap-around.
NextIndexNoWrap(img_index, n) == img_index + 1

\* (img_index + 1) % len(image_locations)
NextIndex(img_index, n) == (img_index + 1) % n

\* generate_image; `pick` is random.randrange's choice when randomize is on.
\* A raise leaves the settings as they were.
generate_image(st, canRead, pick) ==
    LET image_locations == st.files
        start == IF st.image_index >= Len(image_locations) THEN 0 ELSE st.image_index
    IN  IF st.randomize
        THEN IF image_locations = <<>>
             THEN CallResult(FALSE, start, st.image_index, "ValueError")
             ELSE IF open_image(pick, image_locations, canRead).ok
             THEN CallResult(TRUE, pick, pick, "")
             ELSE CallResult(FALSE, pick, st.image_index,
                             open_image(pick, image_locations, canRead).error)
        ELSE IF open_image(start, image_locations, canRead).ok
             THEN CallResult(TRUE, start, NextIndex(start, Len(image_locations)), "")
             ELSE CallResult(FALSE, start, st.image_index,
                             open_image(start, image_locations, canRead).error)

\* The log holds the latest calls made with randomize off on the current
\* list, at most MaxImages + 1 of them.
Logged(log, entry) ==
    LET all == Append(log, entry)
    IN  IF Len(all) > MaxImages + 1 THEN Tail(all) ELSE all

Paths(n) == [k \in 1 .. n |-> k]

InitRotate ==
    /\ settings = [image_index |-> 0, files |-> <<>>, randomize |-> FALSE]
    /\ readable = <<>>
    /\ calls = <<>>

GenerateImage ==
    \E pick \in 0 .. Max(Len(settings.files) - 1, 0) :
        LET r == generate_image(settings, readable, pick)
        IN  /\ settings' = [settings EXCEPT !.image_index = r.written]
            /\ calls' = IF settings.randomize THEN <<>>
                        ELSE Logged(calls, [before |-> settings.image_index,
                                            used |-> r.used, ok |-> r.ok])
            /\ UNCHANGED <<readable, packVars, quantVars, fitVars, serveVars, uploadVars>>

\* The user uploads one more image; a corrupt upload is stored unreadable.
AddImage ==
    \E good \in BOOLEAN :
        /\ Len(settings.files) < MaxImages
        /\ settings' = [settings EXCEPT !.files = Paths(Len(@) + 1)]
        /\ readable' = Append(readable, good)
        /\ calls' = <<>>
        /\ UNCHANGED <<packVars, quantVars, fitVars, serveVars, uploadVars>>

\* The user removes the k-th image from the list.
RemoveImage ==
    \E k \in 1 .. Len(settings.files) :
        /\ settings' = [settings EXCEPT !.files = Paths(Len(@) - 1)]
        /\ readable' = SubSeq(readable, 1, k - 1)
                           \o SubSeq(readable, k + 1, Len(readable))
        /\ calls' = <<>>
        /\ UNCHANGED <<packVars, quantVars, fitVars, serveVars, uploadVars>>

\* A stored file disappears from the disk or is damaged.
LoseFile ==
    \E k \in 1 .. Len(readable) :
        /\ readable[k]
        /\ readable' = [readable EXCEPT ![k] = FALSE]
        /\ UNCHANGED <<settings, calls, packVars, quantVars, fitVars, serveVars, uploadVars>>

SetRandomize ==
    /\ settings' = [settings EXCEPT !.randomize = ~@]
    /\ UNCHANGED <<readable, calls, packVars, quantVars, fitVars, serveVars, uploadVars>>

(***************************************************************************)
(* The specifications.                                                     *)
(***************************************************************************)
IdlePack == canvas = <<>> /\ packOut = NoPack
IdleQuant == qImage = [w |-> 0, h |-> 0, px |-> <<>>] /\ qOut = NoQuant
IdleFit ==
    /\ fitIn = [image |-> <<0, 0>>, orientation |-> "horizontal",
                display |-> <<0, 0>>, border |-> 0]
    /\ fitOut = NoFit
IdleServe == InitServe /\ zone = UTC
IdleUpload ==
    /\ device = [orientation |-> "horizontal", display |-> <<0, 0>>]
    /\ savedFile = NoFile
    /\ upOut = NoUpload
IdleRotate == InitRotate

InitPackSpec ==
    InitPack /\ IdleQuant /\ IdleFit /\ IdleServe /\ IdleUpload /\ IdleRotate
SpecPack == InitPackSpec /\ [][PackCanvas]_vars

InitQuantSpec ==
    IdlePack /\ InitQuant /\ IdleFit /\ IdleServe /\ IdleUpload /\ IdleRotate
SpecQuant == InitQuantSpec /\ [][QuantizeImage]_vars

InitFitSpec ==
    IdlePack /\ IdleQuant /\ InitFit /\ IdleServe /\ IdleUpload /\ IdleRotate
SpecFit == InitFitSpec /\ [][FitImage]_vars

InitServeSpec ==
    IdlePack /\ IdleQuant /\ IdleFit /\ InitServe /\ IdleUpload /\ IdleRotate
NextServe == Tick \/ WriteCurrentImage \/ ProbeRequest \/ ClientRequest
SpecServe == InitServeSpec /\ [][NextServe]_vars

InitRotateSpec ==
    IdlePack /\ IdleQuant /\ IdleFit /\ IdleServe /\ IdleUpload /\ InitRotate
NextRotate == GenerateImage \/ AddImage \/ RemoveImage \/ LoseFile \/ SetRandomize
SpecRotate == InitRotateSpec /\ [][NextRotate]_vars

\* The pipeline from an upload to the bytes the panel fetches.
Init == IdlePack /\ IdleQuant /\ IdleFit /\ IdleServe /\ InitUpload /\ IdleRotate
Next == UploadFile \/ PublishCurrentImage \/ PanelFetch
Spec == Init /\ [][Next]_vars

(***************************************************************************)
(* The claims.                                                             *)
(***************************************************************************)
PackRan == packOut # NoPack
PixelCount == Width(canvas) * Height(canvas)
\* The pixel at 0-based row-major position k of the canvas.
PixelAt(k) == canvas[(k \div Width(canvas)) + 1][(k % Width(canvas)) + 1]

\* C1: for a canvas with an even number of pixels, packing succeeds, yields
\* exactly width*height/2 bytes, and reading each byte's high nibble and then
\* its low nibble gives back the canvas in row-major order.
C1_RoundTrip ==
    (PackRan /\ PixelCount % 2 = 0) =>
        /\ packOut.ok
        /\ Len(packOut.bytes) * 2 = PixelCount
        /\ \A k \in 0 .. PixelCount - 1 : Unpack(packOut.bytes)[k + 1] = PixelAt(k)

\* A packed 2x2 canvas whose four pixels all differ.
C1_Witness ==
    /\ PackRan /\ packOut.ok
    /\ canvas = <<(<<4, 5>>), (<<0, 3>>)>>
    /\ packOut.bytes = <<69, 3>>

\* C6: for a canvas with an odd number of pixels, packing does not fail: the
\* buffer has ceil(width*height/2) bytes and its last byte is the last pixel
\* in the high nibble over a zero low nibble.
C6_OddPadsWithZero ==
    (PackRan /\ PixelCount % 2 = 1) =>
        /\ packOut.ok
        /\ Len(packOut.bytes) = (PixelCount + 1) \div 2
        /\ packOut.bytes[Len(packOut.bytes)] = 16 * PixelAt(PixelCount - 1)

\* The index the palette table assigns to a palette color.
IndexOfColor(c) ==
    CASE c = <<0, 0, 0>> -> 0
      [] c = <<255, 255, 255>> -> 1
      [] c = <<0, 128, 0>> -> 2
      [] c = <<0, 0, 255>> -> 3
      [] c = <<255, 0, 0>> -> 4
      [] c = <<255, 255, 0>> -> 5

OnlyPaletteColors ==
    \A p \in 1 .. Len(qImage.px) :
        qImage.px[p] \in {<<0, 0, 0>>, <<255, 255, 255>>, <<0, 128, 0>>,
                          <<0, 0, 255>>, <<255, 0, 0>>, <<255, 255, 0>>}

\* C4: quantizing an image made only of the six palette colors maps every
\* pixel to the index of its own color with no error to diffuse, and the
\* result converted back to RGB is the input image.
C4_PaletteImagesUnchanged ==
    (qOut.ok /\ OnlyPaletteColors) =>
        /\ Len(qOut.idx) = Len(qImage.px)
        /\ \A p \in 1 .. Len(qImage.px) :
               /\ qOut.idx[p] = IndexOfColor(qImage.px[p])
               /\ qOut.err[p] = <<0, 0, 0>>
        /\ ToRGB(qOut.idx) = qImage.px

\* A quantized 2x2 image of red, black, yellow and green.
C4_Witness ==
    /\ qOut.ok
    /\ qImage.w = 2 /\ qImage.h = 2
    /\ qImage.px = <<(<<255, 0, 0>>), (<<0, 0, 0>>), (<<255, 255, 0>>), (<<0, 128, 0>>)>>
    /\ qOut.idx = <<4, 0, 5, 2>>

\* C3: whatever the source size, the orientation and the border percent, the
\* image _resize_and_rotate_image returns has exactly the display resolution
\* (width, height) of the device configuration.
FitRan == fitOut # NoFit
OnThePanel == fitIn.display = <<PanelWidth, PanelHeight>>

\* On the 800x480 panel the function returns an image for every border
\* percent below 100.
C3_FittedSizeIsDisplay ==
    /\ fitOut.ok => fitOut.size = fitIn.display
    /\ (FitRan /\ OnThePanel /\ fitIn.border < 100) => fitOut.ok

\* A landscape source fitted for a vertical 800x480 panel with a border.
C3_Witness ==
    /\ fitOut.ok
    /\ fitIn.orientation = "vertical"
    /\ fitIn.image[1] > fitIn.image[2]
    /\ fitIn.display = <<800, 480>>
    /\ fitIn.border = 10
    /\ fitOut.size = <<800, 480>>

\* The two margins of a content of length `content`, pasted at `paste`, on a
\* canvas of length `full`.
MarginsBalanced(full, content, paste) ==
    /\ paste >= 0
    /\ full - content - paste >= 0
    /\ Abs(paste - (full - content - paste)) <= 1

\* C5: with a border percent B in 1..99 the content pasted on the white
\* canvas is (1 - B/100) of the canvas in width and in height, each within
\* one pixel, the canvas keeps the fitted size, and the content is centered:
\* opposite margins differ by at most one pixel.
\* On the 800x480 panel the border step completes for every such B.
C5_BorderShrinksAndCenters ==
    /\ (fitOut.ok /\ fitOut.bordered) =>
           /\ fitIn.border \in 1 .. 99
           /\ fitOut.size = fitIn.display
           /\ \A i \in 1 .. 2 :
                  /\ Abs(100 * fitOut.content[i]
                             - fitOut.size[i] * (100 - fitIn.border)) <= 100
                  /\ MarginsBalanced(fitOut.size[i], fitOut.content[i], fitOut.paste[i])
    /\ (FitRan /\ OnThePanel /\ fitIn.border \in 1 .. 99) =>
           (fitOut.ok /\ fitOut.bordered)

\* The 800x480 panel with an 80 percent border: the shrunk width is 159.
C5_Witness ==
    /\ fitOut.ok /\ fitOut.bordered
    /\ fitIn.display = <<800, 480>>
    /\ fitIn.border = 80
    /\ fitOut.content = <<159, 95>>
    /\ fitOut.paste = <<320, 192>>

Requested == lastReq.kind # "none" /\ lastReq.file.exists
Status == lastReq.resp.status
\* The header is an HTTP-date in one of the forms of the HTTP standard.
ValidDate(h) == h.kind = "date"
RawFormat == lastReq.format \in {"raw", "spectra6"}

\* C2: with the file's modification time truncated to the second T, the
\* handler answers 304 when If-Modified-Since is a valid HTTP-date asserting
\* a time >= T, and goes on to serve a fresh body when the header asserts a
\* time < T, is absent or cannot be parsed; a header that cannot be parsed
\* never yields an error response.
C2_FreshnessGate ==
    Requested =>
        /\ (ValidDate(lastReq.ims) /\ lastReq.ims.t >= lastReq.fileSec) => Status = 304
        /\ (ValidDate(lastReq.ims) /\ lastReq.ims.t < lastReq.fileSec) => Status = 200
        /\ ~ValidDate(lastReq.ims) => Status = 200

\* The Last-Modified value that states the UTC second u.
DateOf(u) == [kind |-> "date", form |-> "imf-fixdate", t |-> u]

\* C9: a client that sends back the Last-Modified of its last fresh response
\* is answered 304 exactly when the file was not written since that
\* response, and is otherwise given a fresh body whose Last-Modified is the
\* file's modification time; it is never answered 304 after a write.
C9_ConditionalRetrieval ==
    (Requested /\ lastReq.kind = "client" /\ lastReq.ims # None) =>
        /\ Status = 304 <=> ~lastReq.changedBefore
        /\ Status # 304 =>
               /\ Status = 200
               /\ lastReq.resp.lastModified = DateOf(lastReq.fileSec)

\* C7: a failed pipeline stage is surfaced as a failure with a message and
\* no substitute result is used: an upload whose decode or fit raised is not
\* reported as a stored file location, and a request whose quantize or pack
\* raised is answered with an error that carries the message.
C7_NoSilentRecovery ==
    /\ upOut.stageFailed => (upOut.surfaced /\ ~upOut.reported)
    /\ (Requested /\ RawFormat /\ ~convert_to_display_format(lastReq.file).ok) =>
           (Status = 500 /\ lastReq.resp.error # "")

\* C8: an image stored by handle_request_files with a device configuration
\* has the display resolution when it is converted, and the raw body served
\* for it has width*height/2 bytes.
C8_ServedCanvasIsDisplaySize ==
    (lastReq.kind = "fetch" /\ lastReq.file.exists /\ lastReq.file.withConfig) =>
        /\ lastReq.file.size = device.display
        /\ (RawFormat /\ Status = 200) =>
               lastReq.resp.length * 2 = device.display[1] * device.display[2]

NumImages == Len(settings.files)
LastCall == calls[Len(calls)]
\* The latest n logged calls, oldest first.
LatestCalls(n) == SubSeq(calls, Len(calls) - n + 1, Len(calls))
\* The calls step through the list in cyclic order and open every index.
CyclicOnce(run, n) ==
    /\ \A i \in 1 .. Len(run) - 1 : run[i + 1].used = (run[i].used + 1) % n
    /\ {run[i].used : i \in 1 .. Len(run)} = 0 .. n - 1

\* C10 as stated: with randomize off and a non-empty list, every call uses
\* an index within the list (0 when the stored index is past its end) and
\* writes back (index used + 1) mod len, and any n consecutive calls on an
\* unchanged list of n images open every image once, in cyclic order.
C10_RotationAsStated ==
    (calls # <<>> /\ NumImages > 0) =>
        /\ LastCall.used \in 0 .. NumImages - 1
        /\ LastCall.used = (IF LastCall.before >= NumImages THEN 0 ELSE LastCall.before)
        /\ settings.image_index = (LastCall.used + 1) % NumImages
        /\ Len(calls) >= NumImages => CyclicOnce(LatestCalls(NumImages), NumImages)

\* C10 amended: the same, where the index is written back by the calls that
\* open their image, a call whose open raises leaves image_index as it was,
\* and the n consecutive calls are calls that all open their image.
C10_Rotation ==
    (calls # <<>> /\ NumImages > 0) =>
        /\ LastCall.used \in 0 .. NumImages - 1
        /\ LastCall.used = (IF LastCall.before >= NumImages THEN 0 ELSE LastCall.before)
        /\ LastCall.ok => settings.image_index = (LastCall.used + 1) % NumImages
        /\ ~LastCall.ok => settings.image_index = LastCall.before
        /\ (/\ Len(calls) >= NumImages
            /\ \A i \in 1 .. NumImages : LatestCalls(NumImages)[i].ok)
               => CyclicOnce(LatestCalls(NumImages), NumImages)

\* Two images left of three, the stored index past the end of the list at
\* the first of two calls, which opened images 0 and 1 and wrapped to 0.
C10_Witness ==
    /\ NumImages = 2 /\ Len(calls) = 2
    /\ calls[1].before >= 2
    /\ \A i \in 1 .. 2 : calls[i].ok /\ calls[i].used = i - 1
    /\ settings.image_index = 0

====
